---- MODULE Spec2Model ----
(***************************************************************************)
(* Model of the BME280 environmental data plotter:                         *)
(*   - FTPDataManager / FTPDownloadThread   (src/graph/ftp_manager.py)     *)
(*   - EnvironmentalDataPlotter             (src/graph/environmental_      *)
(*                                           plotter.py)                   *)
(* The download part is a state machine of one orchestrating (UI) thread,  *)
(* the worker threads it starts and the queue of signals between them.     *)
(* The record parser is a pure function applied to bounded text blobs.     *)
(***************************************************************************)
EXTENDS Integers, Sequences, FiniteSets, TLC

(***************************************************************************)
(* Bounds                                                                  *)
(***************************************************************************)
\* number of times the user may start a download
MaxFetches == 2
\* number of directory entries the server lists for one download
MaxFiles == 2
\* number of lines of a text blob handed to the parser
MaxLines == 3

VARIABLES
    \* ---- EnvironmentalDataPlotter (UI thread) ----
    connect_btn,          \* connect_btn.isEnabled()
    plot_btn,             \* plot_btn.isEnabled()
    export_btn,           \* export_btn.isEnabled()
    progress_bar,         \* progress_bar.value()
    status_bar,           \* status_bar.currentMessage()
    start_date_combo,     \* [items, current] of the start dropdown
    end_date_combo,       \* [items, current] of the end dropdown
    data_cache,           \* self.data_cache          : date key -> blob
    outdoor_data_cache,   \* self.outdoor_data_cache  : date key -> blob
    available_dates,      \* self.available_dates     : list of date keys
    download_thread,      \* number of FTPDownloadThread objects created;
                          \* self.download_thread is the last one
    event_queue,          \* signals queued to the UI thread, in emit order
    \* ---- FTPDownloadThread.run, one entry per thread ----
    thread_pc,            \* position in run()
    connection,           \* ftp_manager.connection
    csv_files,            \* local csv_files
    loop_i,               \* loop index i
    w_data_cache,         \* local data_cache
    w_outdoor_data_cache, \* local outdoor_data_cache
    w_available_dates,    \* local available_dates
    emitted,              \* every signal the thread has emitted, in order
    \* ---- parse_csv_content ----
    content,              \* the argument: a sequence of lines
    parse_pc,             \* "ready" before the call, "done" after it has
                          \* returned, "raised" after it has raised
    series,               \* the returned DataFrame, as a sequence of rows
    \* ---- generate_plot / export_data (UI thread) ----
    dialog,               \* title of the last QMessageBox shown
    export_file,          \* the file to_csv wrote last
    op,                   \* the selection handler that ran last on the
                          \* selected range: its name, its locals and how
                          \* it ended
    \* ---- MatplotlibCanvas ----
    view_mode,            \* self.view_mode
    current_df,           \* self.current_df, as a sequence of rows
    current_outdoor_df,   \* self.current_outdoor_df
    hover_annotation,     \* self.hover_annotation
    artists,              \* the visible annotations attached to the axes
    screen,               \* the annotations painted by the last redraw
    draw_pending,         \* draw_idle() was called and the redraw is due
    hover_event,          \* the last motion_notify_event and the axis
                          \* limits its handler read
    call                  \* the last call of apply_smoothing or of
                          \* calculate_heat_index: arguments and outcome

uiVars == <<connect_btn, plot_btn, export_btn, progress_bar, status_bar,
            start_date_combo, end_date_combo, data_cache, outdoor_data_cache,
            available_dates, download_thread>>
threadVars == <<thread_pc, connection, csv_files, loop_i, w_data_cache,
                w_outdoor_data_cache, w_available_dates, emitted>>
parseVars == <<content, parse_pc, series>>
selVars == <<dialog, export_file, op>>
canvasVars == <<view_mode, current_df, current_outdoor_df, hover_annotation,
                artists, screen, draw_pending, hover_event>>
vars == <<uiVars, event_queue, threadVars, parseVars, selVars, canvasVars, call>>

Threads == 1..MaxFetches

(***************************************************************************)
(* Small helpers                                                           *)
(***************************************************************************)
None == "None"

EmptyDict == <<>>

\* dict[key] = value
DictSet(d, k, v) == [x \in (DOMAIN d) \cup {k} |-> IF x = k THEN v ELSE d[x]]

\* x in list
InSeq(x, s) == \E k \in 1..Len(s) : s[k] = x

SeqToSet(s) == {s[k] : k \in 1..Len(s)}

(***************************************************************************)
(* The remote directory.  File names are opaque strings; what the regular  *)
(* expressions, endswith() and string comparison do on them is tabulated.  *)
(***************************************************************************)
\* names the server may list, in Python string order (sorted())
FileOrder == << "01_02_2024.csv", "02_01_2024.csv", "02_01_2024.csv.bak.csv",
                "02_01_2024_outside.csv", "31_02_2024.csv", "notes.csv" >>

ServerFiles == SeqToSet(FileOrder)

\* filename.endswith('_outside.csv')
EndsWithOutside(f) == f \in {"02_01_2024_outside.csv"}

\* re.match(r'(\d{2})_(\d{2})_(\d{4})\.csv', filename): a match at the
\* beginning of the name
MatchIndoor(f) ==
    f \in {"01_02_2024.csv", "02_01_2024.csv", "02_01_2024.csv.bak.csv", "31_02_2024.csv"}

\* re.match(r'(\d{2})_(\d{2})_(\d{4})_outside\.csv', filename)
MatchOutdoor(f) == f \in {"02_01_2024_outside.csv"}

\* f"{day}/{month}/{year}" of the match groups
DateStr(f) ==
    CASE f = "01_02_2024.csv"         -> "01/02/2024"
      [] f = "02_01_2024.csv"         -> "02/01/2024"
      [] f = "02_01_2024.csv.bak.csv" -> "02/01/2024"
      [] f = "02_01_2024_outside.csv" -> "02/01/2024"
      [] f = "31_02_2024.csv"         -> "31/02/2024"

\* datetime.strptime(x, "%d/%m/%Y") raises ValueError for a day that is not
\* in the calendar
StrptimeOk(d) == d \in {"01/01/2024", "01/02/2024", "02/01/2024"}

\* the datetime strptime returns, as a day number
Strptime(d) ==
    CASE d = "01/01/2024" -> 1
      [] d = "02/01/2024" -> 2
      [] d = "01/02/2024" -> 32

\* what download_file() can return: None (failure), an empty file, or text
DownloadResults == {None, "", "A"}


(***************************************************************************)
(* Signals of FTPDownloadThread                                            *)
(***************************************************************************)
Progress(v) == [sig |-> "progress_updated", val |-> v]

Status(m) == [sig |-> "status_updated", msg |-> m]

Complete(dc, odc, ad) ==
    [sig |-> "download_complete", data_cache |-> dc,
     outdoor_data_cache |-> odc, available_dates |-> ad]

Error(m) == [sig |-> "download_error", msg |-> m]

IsTerminal(e) == e.sig \in {"download_complete", "download_error"}

\* signal.emit(...) from thread w: queued to the UI thread (the receivers
\* live in the UI thread), and recorded
Emit(w, evs) ==
    /\ event_queue' = event_queue \o [k \in 1..Len(evs) |-> [src |-> w, ev |-> evs[k]]]
    /\ emitted' = [emitted EXCEPT ![w] = @ \o evs]

(***************************************************************************)
(* FTPDataManager                                                          *)
(***************************************************************************)
\* connect(): the outcomes of ftplib's connect / login / cwd.  "refused" is
\* a failure of FTP.connect (no socket), "denied" one of login or cwd
ConnectOutcomes == {"ok", "refused", "denied"}

\* self.connection after connect(): the FTP object exists in every case;
\* it has a socket unless FTP.connect itself failed
ConnectionAfterConnect(o) == IF o = "refused" THEN "nosock" ELSE "open"

\* the value connect() returns
ConnectSuccess(o) == o = "ok"

\* outcomes of self.connection.quit(): a reply, an error of the family
\* disconnect() catches (error_temp, error_perm, OSError), or another
\* exception: EOFError when the server has closed the control connection,
\* AttributeError when the FTP object never got a socket
QuitOutcomes(conn) ==
    CASE conn = None     -> {"ok"}
      [] conn = "nosock" -> {"AttributeError"}
      [] conn = "open"   -> {"ok", "OSError", "EOFError"}

\* disconnect() lets the exception of quit() escape
DisconnectRaises(conn, q) == conn # None /\ q \notin {"ok", "OSError"}

\* self.connection after disconnect()
Disconnect(conn, q) == IF DisconnectRaises(conn, q) THEN conn ELSE None

\* list_csv_files(): the listed names that end in .csv and match one of the
\* two date patterns, sorted; [] when the LIST command fails
ListCsvFiles(listing, ok) ==
    IF ok
    THEN SelectSeq(FileOrder, LAMBDA f : f \in listing /\ (MatchIndoor(f) \/ MatchOutdoor(f)))
    ELSE <<>>

(***************************************************************************)
(* FTPDownloadThread.run                                                   *)
(***************************************************************************)
\* a progress computed from the 1-based file number
ProgressValue_OneBased(i, n) == ((i + 1) * 100) \div n

\* int((i / len(csv_files)) * 100); the float expression and the integer
\* floor agree for every len(csv_files) below 50
ProgressValue(i, n) == (i * 100) \div n

\* a date list left in the order of the file names
SortDates_Unsorted(s) == s

\* list.sort(key=strptime): stable insertion by calendar day
RECURSIVE SortDates(_)
SortDates(s) ==
    IF s = <<>> THEN <<>>
    ELSE LET rest == SortDates(Tail(s))
             x == Head(s)
             before == SelectSeq(rest, LAMBDA y : Strptime(y) < Strptime(x))
             after == SelectSeq(rest, LAMBDA y : Strptime(y) >= Strptime(x))
         IN before \o <<x>> \o after

\* the success signals with the status message emitted last
SuccessSignals_StatusLast(dc, odc, ad) ==
    << Progress(100), Complete(dc, odc, ad), Status("Successfully downloaded") >>

\* the three signals that end a successful run
SuccessSignals(dc, odc, ad) ==
    << Progress(100), Status("Successfully downloaded"), Complete(dc, odc, ad) >>

\* lines 222-234: announce, connect, give up when connect() returns False
ThreadConnect(w) ==
    /\ thread_pc[w] = "start"
    /\ \E o \in ConnectOutcomes :
        /\ connection' = [connection EXCEPT ![w] = ConnectionAfterConnect(o)]
        /\ IF ConnectSuccess(o)
           THEN /\ Emit(w, << Status("Connecting to FTP server...") >>)
                /\ thread_pc' = [thread_pc EXCEPT ![w] = "list"]
           ELSE /\ Emit(w, << Status("Connecting to FTP server..."),
                              Error("Failed to connect to FTP server") >>)
                /\ thread_pc' = [thread_pc EXCEPT ![w] = "finally"]
    /\ UNCHANGED <<uiVars, parseVars, call, selVars, canvasVars, csv_files, loop_i, w_data_cache,
                   w_outdoor_data_cache, w_available_dates>>

\* lines 236-255: list the directory, give up on an empty list
ThreadList(w) ==
    /\ thread_pc[w] = "list"
    /\ \E listing \in SUBSET ServerFiles, ok \in BOOLEAN :
        /\ Cardinality(listing) <= MaxFiles
        /\ LET files == ListCsvFiles(listing, ok) IN
            /\ csv_files' = [csv_files EXCEPT ![w] = files]
            /\ IF files = <<>>
               THEN /\ Emit(w, << Status("Listing CSV files..."),
                                  Error("No CSV files found on the server") >>)
                    /\ thread_pc' = [thread_pc EXCEPT ![w] = "finally"]
               ELSE /\ Emit(w, << Status("Listing CSV files..."),
                                  Status("Found files. Downloading...") >>)
                    /\ thread_pc' = [thread_pc EXCEPT ![w] = "loop"]
    /\ loop_i' = [loop_i EXCEPT ![w] = 0]
    /\ w_data_cache' = [w_data_cache EXCEPT ![w] = EmptyDict]
    /\ w_outdoor_data_cache' = [w_outdoor_data_cache EXCEPT ![w] = EmptyDict]
    /\ w_available_dates' = [w_available_dates EXCEPT ![w] = <<>>]
    /\ UNCHANGED <<uiVars, parseVars, call, selVars, canvasVars, connection>>

\* lines 257-296: one iteration of the download loop
ThreadDownload(w) ==
    /\ thread_pc[w] = "loop"
    /\ LET i == loop_i[w]
           n == Len(csv_files[w])
           filename == csv_files[w][i + 1]
           is_outdoor == EndsWithOutside(filename)
           date_match == IF is_outdoor THEN MatchOutdoor(filename)
                                       ELSE MatchIndoor(filename)
       IN
        /\ Emit(w, << Progress(ProgressValue(i, n)), Status("Downloading") >>)
        /\ \E text \in DownloadResults :
            IF text \notin {None, ""} /\ date_match
            THEN LET date_str == DateStr(filename) IN
                  /\ w_outdoor_data_cache' =
                        IF is_outdoor
                        THEN [w_outdoor_data_cache EXCEPT ![w] = DictSet(@, date_str, text)]
                        ELSE w_outdoor_data_cache
                  /\ w_data_cache' =
                        IF is_outdoor
                        THEN w_data_cache
                        ELSE [w_data_cache EXCEPT ![w] = DictSet(@, date_str, text)]
                  /\ w_available_dates' =
                        IF InSeq(date_str, w_available_dates[w])
                        THEN w_available_dates
                        ELSE [w_available_dates EXCEPT ![w] = Append(@, date_str)]
            ELSE UNCHANGED <<w_data_cache, w_outdoor_data_cache, w_available_dates>>
        /\ loop_i' = [loop_i EXCEPT ![w] = i + 1]
        /\ thread_pc' = [thread_pc EXCEPT ![w] = IF i + 1 < n THEN "loop" ELSE "finish"]
    /\ UNCHANGED <<uiVars, parseVars, call, selVars, canvasVars, connection, csv_files>>

\* lines 298-323: disconnect, sort the dates, report success; an exception
\* of disconnect() or of strptime goes to the except clause
ThreadFinish(w) ==
    /\ thread_pc[w] = "finish"
    /\ \E q \in QuitOutcomes(connection[w]) :
        /\ connection' = [connection EXCEPT ![w] = Disconnect(@, q)]
        /\ IF DisconnectRaises(connection[w], q)
           THEN /\ Emit(w, << Error("Error during download") >>)
                /\ UNCHANGED w_available_dates
           ELSE IF \E k \in 1..Len(w_available_dates[w]) : ~StrptimeOk(w_available_dates[w][k])
           THEN /\ Emit(w, << Error("Error during download") >>)
                /\ UNCHANGED w_available_dates
           ELSE LET sorted == SortDates(w_available_dates[w]) IN
                /\ w_available_dates' = [w_available_dates EXCEPT ![w] = sorted]
                /\ Emit(w, SuccessSignals(w_data_cache[w], w_outdoor_data_cache[w], sorted))
    /\ thread_pc' = [thread_pc EXCEPT ![w] = "finally"]
    /\ UNCHANGED <<uiVars, parseVars, call, selVars, canvasVars, csv_files, loop_i, w_data_cache,
                   w_outdoor_data_cache>>

\* lines 324-327: the finally clause; run() returns, or ends with the
\* exception that disconnect() let escape, and its locals are gone
ThreadFinally(w) ==
    /\ thread_pc[w] = "finally"
    /\ \E q \in QuitOutcomes(connection[w]) :
        /\ connection' = [connection EXCEPT ![w] = Disconnect(@, q)]
        /\ thread_pc' = [thread_pc EXCEPT ![w] =
                            IF DisconnectRaises(connection[w], q) THEN "raised" ELSE "done"]
    /\ csv_files' = [csv_files EXCEPT ![w] = <<>>]
    /\ loop_i' = [loop_i EXCEPT ![w] = 0]
    /\ w_data_cache' = [w_data_cache EXCEPT ![w] = EmptyDict]
    /\ w_outdoor_data_cache' = [w_outdoor_data_cache EXCEPT ![w] = EmptyDict]
    /\ w_available_dates' = [w_available_dates EXCEPT ![w] = <<>>]
    /\ UNCHANGED <<uiVars, parseVars, call, selVars, canvasVars, event_queue, emitted>>

(***************************************************************************)
(* EnvironmentalDataPlotter: the download handlers (UI thread)             *)
(***************************************************************************)
\* a handler that updates the old cache with the new entries
StoreCache_Merge(old, new) ==
    [k \in (DOMAIN old) \cup (DOMAIN new) |-> IF k \in DOMAIN new THEN new[k] ELSE old[k]]

\* what on_download_complete stores for a cache it receives
StoreCache(old, new) == new

\* update_date_selection(): nothing at all for an empty list, else both
\* dropdowns are cleared and refilled and plot / export are enabled
UpdateDateSelection(dates) ==
    IF dates = <<>>
    THEN UNCHANGED <<start_date_combo, end_date_combo, plot_btn, export_btn>>
    ELSE /\ start_date_combo' = [items |-> dates, current |-> dates[1]]
         /\ end_date_combo' = [items |-> dates, current |-> dates[Len(dates)]]
         /\ plot_btn' = TRUE
         /\ export_btn' = TRUE

\* run() of thread w is over
Finished(w) == thread_pc[w] \in {"done", "raised"}

\* connect_and_download(): the click handler of connect_btn.  A thread
\* object that cannot be created or started takes the except clause.
\* Assigning self.download_thread drops the last reference to the previous
\* thread object: it is collected unless its run() is still executing
ConnectAndDownload ==
    /\ connect_btn
    /\ download_thread < MaxFetches
    /\ progress_bar' = 0
    /\ \E started \in BOOLEAN :
        IF started
        THEN /\ connect_btn' = FALSE
             /\ download_thread' = download_thread + 1
             /\ thread_pc' = [w \in Threads |->
                                IF w = download_thread + 1 THEN "start"
                                ELSE IF Finished(w) THEN "collected"
                                ELSE thread_pc[w]]
             /\ connection' = [w \in Threads |-> IF Finished(w) THEN None ELSE connection[w]]
             /\ emitted' = [w \in Threads |-> IF Finished(w) THEN <<>> ELSE emitted[w]]
        ELSE /\ connect_btn' = TRUE
             /\ UNCHANGED <<download_thread, thread_pc, connection, emitted>>
    /\ UNCHANGED <<plot_btn, export_btn, status_bar, start_date_combo, end_date_combo,
                   data_cache, outdoor_data_cache, available_dates, event_queue,
                   csv_files, loop_i, w_data_cache, w_outdoor_data_cache,
                   w_available_dates, parseVars, call, selVars, canvasVars>>

\* progress_updated -> progress_bar.setValue
ProgressBarSetValue ==
    /\ event_queue # <<>>
    /\ Head(event_queue).ev.sig = "progress_updated"
    /\ progress_bar' = Head(event_queue).ev.val
    /\ event_queue' = Tail(event_queue)
    /\ UNCHANGED <<connect_btn, plot_btn, export_btn, status_bar, start_date_combo,
                   end_date_combo, data_cache, outdoor_data_cache, available_dates,
                   download_thread, threadVars, parseVars, call, selVars, canvasVars>>

\* status_updated -> status_bar.showMessage
StatusBarShowMessage ==
    /\ event_queue # <<>>
    /\ Head(event_queue).ev.sig = "status_updated"
    /\ status_bar' = Head(event_queue).ev.msg
    /\ event_queue' = Tail(event_queue)
    /\ UNCHANGED <<connect_btn, plot_btn, export_btn, progress_bar, start_date_combo,
                   end_date_combo, data_cache, outdoor_data_cache, available_dates,
                   download_thread, threadVars, parseVars, call, selVars, canvasVars>>

\* download_complete -> on_download_complete
OnDownloadComplete ==
    /\ event_queue # <<>>
    /\ Head(event_queue).ev.sig = "download_complete"
    /\ LET e == Head(event_queue).ev IN
        /\ data_cache' = StoreCache(data_cache, e.data_cache)
        /\ outdoor_data_cache' = StoreCache(outdoor_data_cache, e.outdoor_data_cache)
        /\ available_dates' = e.available_dates
        /\ UpdateDateSelection(e.available_dates)
    /\ connect_btn' = TRUE
    /\ event_queue' = Tail(event_queue)
    /\ UNCHANGED <<progress_bar, status_bar, download_thread, threadVars, parseVars, call, selVars, canvasVars>>

\* a failure handler that also drops the session's data
OnDownloadError_ClearsCache ==
    /\ event_queue # <<>>
    /\ Head(event_queue).ev.sig = "download_error"
    /\ connect_btn' = TRUE
    /\ status_bar' = "Download failed"
    /\ event_queue' = Tail(event_queue)
    /\ data_cache' = EmptyDict
    /\ outdoor_data_cache' = EmptyDict
    /\ available_dates' = <<>>
    /\ UNCHANGED <<plot_btn, export_btn, progress_bar, start_date_combo, end_date_combo,
                   download_thread, threadVars, parseVars, call, selVars, canvasVars>>

\* a failure handler that forgets the button
OnDownloadError_LeavesDisabled ==
    /\ event_queue # <<>>
    /\ Head(event_queue).ev.sig = "download_error"
    /\ status_bar' = "Download failed"
    /\ event_queue' = Tail(event_queue)
    /\ UNCHANGED <<connect_btn, plot_btn, export_btn, progress_bar, start_date_combo,
                   end_date_combo, data_cache, outdoor_data_cache, available_dates,
                   download_thread, threadVars, parseVars, call, selVars, canvasVars>>

\* download_error -> on_download_error
OnDownloadError ==
    /\ event_queue # <<>>
    /\ Head(event_queue).ev.sig = "download_error"
    /\ connect_btn' = TRUE
    /\ status_bar' = "Download failed"
    /\ event_queue' = Tail(event_queue)
    /\ UNCHANGED <<plot_btn, export_btn, progress_bar, start_date_combo, end_date_combo,
                   data_cache, outdoor_data_cache, available_dates, download_thread,
                   threadVars, parseVars, call, selVars, canvasVars>>

(***************************************************************************)
(* The download state machine                                              *)
(***************************************************************************)
\* a DataFrame attribute that is None
NoDf == <<>>

\* self.hover_annotation is None
NoAnnotation == [state |-> "None"]

\* no helper of the canvas has been called
NoCall == [fn |-> None]

\* MatplotlibCanvas.__init__: the grid view, nothing displayed, no label
InitCanvas ==
    /\ call = NoCall
    /\ view_mode = "all"
    /\ current_df = NoDf
    /\ current_outdoor_df = NoDf
    /\ hover_annotation = NoAnnotation
    /\ artists = {}
    /\ screen = {}
    /\ draw_pending = FALSE
    /\ hover_event = [exit |-> None]

\* no export file has been written
NoFile == [outdoor_columns |-> FALSE, rows |-> <<>>]

\* no dialog has been shown, no file written, no selection handler has run
InitSelection ==
    /\ dialog = None
    /\ export_file = NoFile
    /\ op = [handler |-> None]

\* __init__ and setup_ui of the window; no thread exists
InitDownload ==
    /\ connect_btn = TRUE
    /\ plot_btn = FALSE
    /\ export_btn = FALSE
    /\ progress_bar = 0
    /\ status_bar = "Ready"
    /\ start_date_combo = [items |-> <<>>, current |-> ""]
    /\ end_date_combo = [items |-> <<>>, current |-> ""]
    /\ data_cache = EmptyDict
    /\ outdoor_data_cache = EmptyDict
    /\ available_dates = <<>>
    /\ download_thread = 0
    /\ event_queue = <<>>
    /\ thread_pc = [w \in Threads |-> "none"]
    /\ connection = [w \in Threads |-> None]
    /\ csv_files = [w \in Threads |-> <<>>]
    /\ loop_i = [w \in Threads |-> 0]
    /\ w_data_cache = [w \in Threads |-> EmptyDict]
    /\ w_outdoor_data_cache = [w \in Threads |-> EmptyDict]
    /\ w_available_dates = [w \in Threads |-> <<>>]
    /\ emitted = [w \in Threads |-> <<>>]

Init ==
    /\ InitDownload
    /\ InitSelection
    /\ InitCanvas
    /\ content = <<>>
    /\ parse_pc = "idle"
    /\ series = <<>>

\* a step of some worker thread
ThreadNext ==
    \E w \in Threads :
        \/ ThreadConnect(w)
        \/ ThreadList(w)
        \/ ThreadDownload(w)
        \/ ThreadFinish(w)
        \/ ThreadFinally(w)

\* the UI thread's event loop delivers the next queued signal
EventLoop ==
    \/ ProgressBarSetValue
    \/ StatusBarShowMessage
    \/ OnDownloadComplete
    \/ OnDownloadError

Next ==
    \/ ConnectAndDownload
    \/ EventLoop
    \/ ThreadNext

Spec == Init /\ [][Next]_vars

\* the event loop keeps delivering and every thread keeps running; the
\* user is free never to click
SpecLive == Spec /\ WF_vars(EventLoop) /\ WF_vars(ThreadNext)


(***************************************************************************)
(* parse_csv_content.  A blob is a sequence of lines and a line the        *)
(* sequence of fields line.split(',') gives.  Fields are opaque strings;   *)
(* what strip(), int(), float() and the datetime format do on them is      *)
(* tabulated.  Floats are kept in tenths.                                  *)
(***************************************************************************)
\* str.strip()
Strip(t) == IF t = " 21 " THEN "21" ELSE t

\* int(t) does not raise ValueError
IntOk(t) == t \in {"5", "6", "7", "21"}

\* int(t)
IntVal(t) ==
    CASE t = "5" -> 5 [] t = "6" -> 6 [] t = "7" -> 7 [] t = "21" -> 21

\* float(t) does not raise ValueError
FloatOk(t) == t \in {"5", "6", "7", "21", "20.5", "32.0", "1013.0", "1012.5", "55.0"}

\* float(t), in tenths
FloatVal(t) ==
    CASE t = "5" -> 50 [] t = "6" -> 60 [] t = "7" -> 70 [] t = "21" -> 210
      [] t = "20.5" -> 205 [] t = "32.0" -> 320 [] t = "1013.0" -> 10130 [] t = "1012.5" -> 10125
      [] t = "55.0" -> 550

\* t.upper()
Upper(t) == CASE t = "n/a" -> "N/A" [] t = "abc" -> "ABC" [] OTHER -> t

\* the string matches the format '%d/%m/%Y %H:%M'
DatetimeOk(t) == t \in {"01/01/2024 09:00", "01/01/2024 10:00", "01/01/2024 12:30"}

\* the Timestamp pd.to_datetime gives, in minutes after 01/01/2024 00:00
DatetimeVal(t) ==
    CASE t = "01/01/2024 09:00" -> 540
      [] t = "01/01/2024 10:00" -> 600
      [] t = "01/01/2024 12:30" -> 750

\* humidity is pd.NA
NA == <<>>

\* line.strip() is empty
IsBlank(line) == line = << "" >>

\* line.startswith('Date,Sample')
IsHeader(line) == Len(line) >= 2 /\ line[1] = "Date" /\ line[2] = "Sample Size"

\* lines 354-357: the lines that are neither blank nor a header
DataLines(text) == SelectSeq(text, LAMBDA line : ~IsBlank(line) /\ ~IsHeader(line))

\* lines 377-385: the humidity of a line
Humidity(parts) ==
    IF Len(parts) >= 5
    THEN LET humidity_str == Strip(parts[5]) IN
         IF Upper(humidity_str) \notin {"N/A", "NA", ""}
         THEN IF FloatOk(humidity_str) THEN << FloatVal(humidity_str) >> ELSE NA
         ELSE NA
    ELSE NA

\* a loop body without the try: a line that fails makes the row a partial one
ParseLine_Partial(parts) ==
    IF Len(parts) >= 3
    THEN << [datetime |-> Strip(parts[1]),
             sample_size |-> IF IntOk(Strip(parts[2])) THEN IntVal(Strip(parts[2])) ELSE 0,
             temperature |-> IF FloatOk(Strip(parts[3])) THEN FloatVal(Strip(parts[3])) ELSE 0,
             pressure |-> IF Len(parts) >= 4 /\ FloatOk(Strip(parts[4]))
                          THEN FloatVal(Strip(parts[4])) ELSE 0,
             humidity |-> Humidity(parts)] >>
    ELSE << >>

\* lines 368-398: the rows one line appends to parsed_data: one row, or
\* none for a line with fewer than 4 fields or one that raises ValueError
ParseLine(parts) ==
    IF Len(parts) >= 4
    THEN IF IntOk(Strip(parts[2])) /\ FloatOk(Strip(parts[3])) /\ FloatOk(Strip(parts[4]))
         THEN << [datetime |-> Strip(parts[1]),
                  sample_size |-> IntVal(Strip(parts[2])),
                  temperature |-> FloatVal(Strip(parts[3])),
                  pressure |-> FloatVal(Strip(parts[4])),
                  humidity |-> Humidity(parts)] >>
         ELSE << >>
    ELSE << >>

\* lines 366-398: parsed_data after the loop
RECURSIVE ParsedData(_)
ParsedData(lines) ==
    IF lines = <<>> THEN <<>>
    ELSE ParseLine(Head(lines)) \o ParsedData(Tail(lines))

\* lines 404-408: the DataFrame of the rows, its datetime column converted
ToDataFrame(rows) ==
    [k \in 1..Len(rows) |-> [rows[k] EXCEPT !.datetime = DatetimeVal(@)]]

\* lines 349-408: the try block of parse_csv_content.  It ends with a
\* DataFrame, or with an exception: pd.to_datetime raises ValueError for the
\* whole column when one string does not match the format
TryParse(text) ==
    LET data_lines == DataLines(text)
        parsed_data == ParsedData(data_lines)
    IN IF data_lines = <<>> THEN [raised |-> FALSE, df |-> <<>>]
       ELSE IF parsed_data = <<>> THEN [raised |-> FALSE, df |-> <<>>]
       ELSE IF \E k \in 1..Len(parsed_data) : ~DatetimeOk(parsed_data[k].datetime)
       THEN [raised |-> TRUE, df |-> <<>>]
       ELSE [raised |-> FALSE, df |-> ToDataFrame(parsed_data)]

\* an except clause that logs and raises again
OuterExcept_Reraise(r) == r

\* lines 409-412: the outer except clause returns an empty DataFrame
OuterExcept(r) == IF r.raised THEN [raised |-> FALSE, df |-> <<>>] ELSE r

\* an exception leaves parse_csv_content(content)
ParseRaises(text) == OuterExcept(TryParse(text)).raised

\* parse_csv_content(content): the DataFrame it returns
ParseCsvContent(text) == OuterExcept(TryParse(text)).df

\* the lines a blob is made of
Lines ==
    { << "01/01/2024 10:00", "5", "20.5", "1013.0", "55.0" >>,
      << "01/01/2024 09:00", "6", "21", "1012.5", "n/a" >>,
      << "01/01/2024 10:00", "7", " 21 ", "1013.0" >>,
      << "01/01/2024 09:00", "5", "20.5", "1013.0", "abc" >>,
      << "01/01/2024 10:00", "5", "20.5", "1013.0", "" >>,
      << "01/01/2024 09:00", "5", "20.5", "1013.0", "NA" >>,
      << "01/01/2024 10:00", "5", "20.5", "1013.0", "N/A" >>,
      << "2024-01-01 10:00", "5", "20.5", "1013.0", "55.0" >>,
      << "01/01/2024 10:00", "5", "20.5" >>,
      << "01/01/2024 10:00", "5.0", "20.5", "1013.0", "55.0" >>,
      << "01/01/2024 10:00", "5", "warm", "1013.0", "55.0" >>,
      << "01/01/2024 10:00", "5", "20.5", "", "55.0" >>,
      << "" >>,
      << "Date", "Sample Size", "Temperature", "Pressure", "Humidity" >> }

Blobs == UNION {[1..n -> Lines] : n \in 0..MaxLines}

\* a call of parse_csv_content
Parse ==
    /\ parse_pc = "ready"
    /\ series' = ParseCsvContent(content)
    /\ parse_pc' = IF ParseRaises(content) THEN "raised" ELSE "done"
    /\ UNCHANGED <<content, uiVars, event_queue, threadVars, selVars, canvasVars, call>>

InitParse ==
    /\ InitDownload
    /\ InitSelection
    /\ InitCanvas
    /\ content \in Blobs
    /\ parse_pc = "ready"
    /\ series = <<>>

NextParse == Parse

SpecParse == InitParse /\ [][NextParse]_vars

(***************************************************************************)
(* generate_plot and export_data: the selection of a date range.  The      *)
(* caches hold blobs (sequences of lines); the rendering of the figure is  *)
(* outside the model, the smoothing dropdown stays at "None".              *)
(***************************************************************************)
\* the calendar days of the session's files, in calendar order
Days == << "01/01/2024", "02/01/2024" >>

\* datetime.strftime("%d/%m/%Y") of a day number; a day of no file gives a
\* string that is no cache key
Strftime(n) ==
    CASE n = 1 -> "01/01/2024"
      [] n = 2 -> "02/01/2024"
      [] n = 32 -> "01/02/2024"
      [] OTHER -> "other"

\* Timestamp.strftime('%d/%m/%Y %H:%M')
FormatDatetime(t) ==
    CASE t = 540 -> "01/01/2024 09:00"
      [] t = 600 -> "01/01/2024 10:00"
      [] t = 750 -> "01/01/2024 12:30"

\* the while loops of lines 447-452 and 566-579: the date strings from
\* start_dt to end_dt, none when start_dt is after end_dt
DatesInRange(start_dt, end_dt) ==
    IF start_dt > end_dt THEN <<>>
    ELSE [k \in 1..(end_dt - start_dt + 1) |-> Strftime(start_dt + k - 1)]

RECURSIVE ParseEach(_, _)
\* a loop without the test for an empty DataFrame
ParseEach_KeepEmpty(cache, dates) ==
    IF dates = <<>> THEN <<>>
    ELSE << ParseCsvContent(cache[Head(dates)]) >> \o ParseEach(cache, Tail(dates))

\* the loop of lines 457-464 (569-571): the DataFrames of the listed days
\* of a cache that are not empty
ParseEach(cache, dates) ==
    IF dates = <<>> THEN <<>>
    ELSE LET df == ParseCsvContent(cache[Head(dates)])
         IN (IF df # <<>> THEN << df >> ELSE <<>>) \o ParseEach(cache, Tail(dates))

RECURSIVE Flatten(_)
Flatten(dfs) == IF dfs = <<>> THEN <<>> ELSE Head(dfs) \o Flatten(Tail(dfs))

\* pd.concat(dfs, ignore_index=True): the rows in list order, labelled
\* 0, 1, 2, ... by the new index
Concat(dfs) ==
    LET rows == Flatten(dfs)
    IN [k \in 1..Len(rows) |->
            [idx |-> k - 1, datetime |-> rows[k].datetime,
             sample_size |-> rows[k].sample_size, temperature |-> rows[k].temperature,
             pressure |-> rows[k].pressure, humidity |-> rows[k].humidity]]

\* df.sort_values('datetime'): the rows ascending by timestamp, each row
\* keeping its index label; the default sort is not stable, so rows of equal
\* timestamp come in any order
SortValues(df) ==
    LET n == Len(df)
        perms == {p \in [1..n -> 1..n] :
                    /\ \A i, j \in 1..n : i # j => p[i] # p[j]
                    /\ \A i, j \in 1..n : i < j => df[p[i]].datetime <= df[p[j]].datetime}
    IN {[k \in 1..n |-> df[p[k]]] : p \in perms}

\* lines 222-230 of plot_canvas.py, in tenths of a degree: the Rothfusz
\* regression and its two humidity adjustments, tabulated from the float
\* arithmetic of the code and rounded
Rothfusz(temp_c, humidity) ==
    CASE temp_c = 150 /\ humidity = 50 -> 157
      [] temp_c = 150 /\ humidity = 125 -> 197
      [] temp_c = 150 /\ humidity = 135 -> 202
      [] temp_c = 150 /\ humidity = 550 -> 289
      [] temp_c = 150 /\ humidity = 850 -> 215
      [] temp_c = 150 /\ humidity = 855 -> 213
      [] temp_c = 150 /\ humidity = 900 -> 192
      [] temp_c = 200 /\ humidity = 50 -> 199
      [] temp_c = 200 /\ humidity = 125 -> 218
      [] temp_c = 200 /\ humidity = 135 -> 220
      [] temp_c = 200 /\ humidity = 550 -> 249
      [] temp_c = 200 /\ humidity = 850 -> 199
      [] temp_c = 200 /\ humidity = 855 -> 198
      [] temp_c = 200 /\ humidity = 900 -> 185
      [] temp_c = 266 /\ humidity = 50 -> 255
      [] temp_c = 266 /\ humidity = 125 -> 256
      [] temp_c = 266 /\ humidity = 135 -> 257
      [] temp_c = 266 /\ humidity = 550 -> 273
      [] temp_c = 266 /\ humidity = 850 -> 292
      [] temp_c = 266 /\ humidity = 855 -> 293
      [] temp_c = 266 /\ humidity = 900 -> 296
      [] temp_c = 267 /\ humidity = 50 -> 252
      [] temp_c = 267 /\ humidity = 125 -> 257
      [] temp_c = 267 /\ humidity = 135 -> 257
      [] temp_c = 267 /\ humidity = 550 -> 274
      [] temp_c = 267 /\ humidity = 850 -> 295
      [] temp_c = 267 /\ humidity = 855 -> 296
      [] temp_c = 267 /\ humidity = 900 -> 303
      [] temp_c = 300 /\ humidity = 50 -> 275
      [] temp_c = 300 /\ humidity = 125 -> 281
      [] temp_c = 300 /\ humidity = 135 -> 281
      [] temp_c = 300 /\ humidity = 550 -> 319
      [] temp_c = 300 /\ humidity = 850 -> 391
      [] temp_c = 300 /\ humidity = 855 -> 393
      [] temp_c = 300 /\ humidity = 900 -> 408
      [] temp_c = 320 /\ humidity = 50 -> 290
      [] temp_c = 320 /\ humidity = 125 -> 297
      [] temp_c = 320 /\ humidity = 135 -> 298
      [] temp_c = 320 /\ humidity = 550 -> 356
      [] temp_c = 320 /\ humidity = 850 -> 466
      [] temp_c = 320 /\ humidity = 855 -> 468
      [] temp_c = 320 /\ humidity = 900 -> 490
      [] temp_c = 350 /\ humidity = 50 -> 312
      [] temp_c = 350 /\ humidity = 125 -> 324
      [] temp_c = 350 /\ humidity = 135 -> 325
      [] temp_c = 350 /\ humidity = 550 -> 427
      [] temp_c = 350 /\ humidity = 850 -> 600
      [] temp_c = 350 /\ humidity = 855 -> 604
      [] temp_c = 350 /\ humidity = 900 -> 637
      [] temp_c = 400 /\ humidity = 50 -> 356
      [] temp_c = 400 /\ humidity = 125 -> 374
      [] temp_c = 400 /\ humidity = 135 -> 377
      [] temp_c = 400 /\ humidity = 550 -> 585
      [] temp_c = 400 /\ humidity = 850 -> 883
      [] temp_c = 400 /\ humidity = 855 -> 889
      [] temp_c = 400 /\ humidity = 900 -> 945
      [] temp_c = 445 /\ humidity = 50 -> 398
      [] temp_c = 445 /\ humidity = 125 -> 426
      [] temp_c = 445 /\ humidity = 135 -> 431
      [] temp_c = 445 /\ humidity = 550 -> 770
      [] temp_c = 445 /\ humidity = 850 -> 1202
      [] temp_c = 445 /\ humidity = 855 -> 1211
      [] temp_c = 445 /\ humidity = 900 -> 1290

\* a heat index without the test for 80 F
CalculateHeatIndex_NoThreshold(temp_c, humidity) ==
    IF humidity = NA THEN temp_c ELSE Rothfusz(temp_c, humidity[1])

\* calculate_heat_index(temp_c, humidity), in tenths of a degree
CalculateHeatIndex(temp_c, humidity) ==
    IF humidity = NA THEN temp_c
    ELSE IF temp_c * 9 + 1600 < 4000 THEN temp_c
    ELSE Rothfusz(temp_c, humidity[1])

\* the feels_like column added to a DataFrame (lines 270-275 of
\* plot_canvas.py, 590-595 of environmental_plotter.py)
WithFeelsLike(df) ==
    [k \in 1..Len(df) |->
        [idx |-> df[k].idx, datetime |-> df[k].datetime,
         sample_size |-> df[k].sample_size, temperature |-> df[k].temperature,
         pressure |-> df[k].pressure, humidity |-> df[k].humidity,
         feels_like |-> CalculateHeatIndex(df[k].temperature, df[k].humidity)]]

\* lines 441-475 of generate_plot: the days of the range that are keys of
\* the indoor cache
DatesToProcess(start_dt, end_dt) ==
    SelectSeq(DatesInRange(start_dt, end_dt), LAMBDA d : d \in DOMAIN data_cache)

\* generate_plot, lines 457-464
PlotIndoorData(start_dt, end_dt) ==
    ParseEach(data_cache, DatesToProcess(start_dt, end_dt))

\* generate_plot, lines 467-473: the outdoor blobs of the days in
\* dates_to_process
PlotOutdoorData(start_dt, end_dt) ==
    ParseEach(outdoor_data_cache,
              SelectSeq(DatesToProcess(start_dt, end_dt),
                        LAMBDA d : d \in DOMAIN outdoor_data_cache))

\* export_data, lines 566-579
ExportIndoorData(start_dt, end_dt) ==
    ParseEach(data_cache,
              SelectSeq(DatesInRange(start_dt, end_dt), LAMBDA d : d \in DOMAIN data_cache))

ExportOutdoorData(start_dt, end_dt) ==
    ParseEach(outdoor_data_cache,
              SelectSeq(DatesInRange(start_dt, end_dt),
                        LAMBDA d : d \in DOMAIN outdoor_data_cache))

\* the cache entries a handler reads for a range: <<cache name, key>>
PlotReads(start_dt, end_dt) ==
    {<<"indoor", d>> : d \in SeqToSet(DatesToProcess(start_dt, end_dt))}
      \cup {<<"outdoor", d>> : d \in SeqToSet(DatesToProcess(start_dt, end_dt))
                                        \cap DOMAIN outdoor_data_cache}

ExportReads(start_dt, end_dt) ==
    {<<"indoor", d>> : d \in SeqToSet(DatesInRange(start_dt, end_dt)) \cap DOMAIN data_cache}
      \cup {<<"outdoor", d>> : d \in SeqToSet(DatesInRange(start_dt, end_dt))
                                        \cap DOMAIN outdoor_data_cache}

\* pd.merge(export_df, outdoor_export, on='Date/Time', how='left'): every
\* indoor row once for each outdoor row of the same Date/Time string, or
\* once with empty outdoor columns when there is none
RECURSIVE Merge(_, _)
Merge(indoor, outdoor) ==
    IF indoor = <<>> THEN <<>>
    ELSE LET r == Head(indoor)
             key == FormatDatetime(r.datetime)
             matches == SelectSeq(outdoor, LAMBDA o : FormatDatetime(o.datetime) = key)
             base == [date_time |-> key, sample_size |-> r.sample_size,
                      temperature |-> r.temperature, pressure |-> r.pressure,
                      humidity |-> r.humidity, feels_like |-> r.feels_like]
         IN (IF matches = <<>>
             THEN << [indoor |-> base, outdoor |-> NA] >>
             ELSE [k \in 1..Len(matches) |->
                      [indoor |-> base,
                       outdoor |-> << [temperature |-> matches[k].temperature,
                                       pressure |-> matches[k].pressure] >>]])
            \o Merge(Tail(indoor), outdoor)

\* lines 597-614: export_df; without outdoor data the file has no outdoor
\* columns
ExportDf(combined_indoor_df, combined_outdoor_df) ==
    [outdoor_columns |-> combined_outdoor_df # NoDf,
     rows |-> Merge(WithFeelsLike(combined_indoor_df), combined_outdoor_df)]

\* the record of a handler that ended before it combined anything
Ended(handler, start_date, end_date, outcome, reads) ==
    [handler |-> handler, start_date |-> start_date, end_date |-> end_date,
     outcome |-> outcome, reads |-> reads,
     indoor_data |-> <<>>, outdoor_data |-> <<>>,
     combined_indoor_df |-> NoDf, combined_outdoor_df |-> NoDf]

\* create_time_series_plots(indoor_df, outdoor_df, 1, method): the canvas
\* keeps the two DataFrames, clears the axes and draws at once
CreateTimeSeriesPlots(indoor_df, outdoor_df) ==
    /\ current_df' = WithFeelsLike(indoor_df)
    /\ current_outdoor_df' = outdoor_df
    /\ artists' = {}
    /\ screen' = {}
    /\ UNCHANGED <<view_mode, hover_annotation, draw_pending, hover_event>>

\* generate_plot(): the click handler of plot_btn
GeneratePlot ==
    /\ plot_btn
    /\ LET start_date == start_date_combo.current
           end_date == end_date_combo.current
       IN
        IF start_date = "" \/ end_date = ""
        THEN /\ dialog' = "Selection Error"
             /\ op' = Ended("generate_plot", start_date, end_date, "selection_error", {})
             /\ UNCHANGED <<status_bar, canvasVars>>
        ELSE IF ~StrptimeOk(start_date) \/ ~StrptimeOk(end_date)
        THEN /\ dialog' = "Plot Error"
             /\ status_bar' = "Plot generation failed"
             /\ op' = Ended("generate_plot", start_date, end_date, "error", {})
             /\ UNCHANGED canvasVars
        ELSE LET start_dt == Strptime(start_date)
                 end_dt == Strptime(end_date)
                 indoor_data == PlotIndoorData(start_dt, end_dt)
                 outdoor_data == PlotOutdoorData(start_dt, end_dt)
             IN
              IF start_dt > end_dt
              THEN /\ dialog' = "Date Error"
                   /\ op' = Ended("generate_plot", start_date, end_date, "date_error", {})
                   /\ UNCHANGED <<status_bar, canvasVars>>
              ELSE IF indoor_data = <<>>
              THEN /\ dialog' = "No Data"
                   /\ status_bar' = "Ready"
                   /\ op' = Ended("generate_plot", start_date, end_date, "no_data",
                                  PlotReads(start_dt, end_dt))
                   /\ UNCHANGED canvasVars
              ELSE \E combined_indoor_df \in SortValues(Concat(indoor_data)),
                      combined_outdoor_df \in IF outdoor_data = <<>> THEN {NoDf}
                                              ELSE SortValues(Concat(outdoor_data)) :
                   /\ CreateTimeSeriesPlots(combined_indoor_df, combined_outdoor_df)
                   /\ status_bar' = "Plot generated successfully"
                   /\ op' = [handler |-> "generate_plot", start_date |-> start_date,
                             end_date |-> end_date, outcome |-> "ok",
                             reads |-> PlotReads(start_dt, end_dt),
                             indoor_data |-> indoor_data, outdoor_data |-> outdoor_data,
                             combined_indoor_df |-> combined_indoor_df,
                             combined_outdoor_df |-> combined_outdoor_df]
                   /\ UNCHANGED dialog
    /\ UNCHANGED <<connect_btn, plot_btn, export_btn, progress_bar, start_date_combo,
                   end_date_combo, data_cache, outdoor_data_cache, available_dates,
                   download_thread, event_queue, threadVars, parseVars, call, export_file>>

\* export_data(): the click handler of export_btn.  The user gives a file
\* name or cancels the dialog; to_csv writes the file or raises
ExportData ==
    /\ export_btn
    /\ LET start_date == start_date_combo.current
           end_date == end_date_combo.current
       IN
        IF start_date = "" \/ end_date = ""
        THEN /\ dialog' = "Selection Error"
             /\ op' = Ended("export_data", start_date, end_date, "selection_error", {})
             /\ UNCHANGED <<status_bar, export_file>>
        ELSE \E filename \in {"", "export.csv"}, written \in BOOLEAN :
            IF filename = ""
            THEN /\ op' = Ended("export_data", start_date, end_date, "cancelled", {})
                 /\ UNCHANGED <<dialog, status_bar, export_file>>
            ELSE IF ~StrptimeOk(start_date) \/ ~StrptimeOk(end_date)
            THEN /\ dialog' = "Export Error"
                 /\ op' = Ended("export_data", start_date, end_date, "error", {})
                 /\ UNCHANGED <<status_bar, export_file>>
            ELSE LET start_dt == Strptime(start_date)
                     end_dt == Strptime(end_date)
                     indoor_data == ExportIndoorData(start_dt, end_dt)
                     outdoor_data == ExportOutdoorData(start_dt, end_dt)
                 IN
                  IF indoor_data = <<>>
                  THEN /\ dialog' = "No Data"
                       /\ op' = Ended("export_data", start_date, end_date, "no_data",
                                      ExportReads(start_dt, end_dt))
                       /\ UNCHANGED <<status_bar, export_file>>
                  ELSE \E combined_indoor_df \in SortValues(Concat(indoor_data)),
                          combined_outdoor_df \in IF outdoor_data = <<>> THEN {NoDf}
                                                  ELSE SortValues(Concat(outdoor_data)) :
                       /\ op' = [handler |-> "export_data", start_date |-> start_date,
                                 end_date |-> end_date,
                                 outcome |-> IF written THEN "ok" ELSE "error",
                                 reads |-> ExportReads(start_dt, end_dt),
                                 indoor_data |-> indoor_data, outdoor_data |-> outdoor_data,
                                 combined_indoor_df |-> combined_indoor_df,
                                 combined_outdoor_df |-> combined_outdoor_df]
                       /\ IF written
                          THEN /\ export_file' = ExportDf(combined_indoor_df, combined_outdoor_df)
                               /\ dialog' = "Export Success"
                               /\ status_bar' = "Data exported"
                          ELSE /\ dialog' = "Export Error"
                               /\ UNCHANGED <<status_bar, export_file>>
    /\ UNCHANGED <<connect_btn, plot_btn, export_btn, progress_bar, start_date_combo,
                   end_date_combo, data_cache, outdoor_data_cache, available_dates,
                   download_thread, event_queue, threadVars, parseVars, call, canvasVars>>

\* the user picks entries of the two date dropdowns; the locals of the
\* handler that ran before are gone
SelectDates ==
    /\ \E s \in SeqToSet(start_date_combo.items), e \in SeqToSet(end_date_combo.items) :
        /\ start_date_combo' = [start_date_combo EXCEPT !.current = s]
        /\ end_date_combo' = [end_date_combo EXCEPT !.current = e]
    /\ op' = [handler |-> None]
    /\ UNCHANGED <<connect_btn, plot_btn, export_btn, progress_bar, status_bar,
                   data_cache, outdoor_data_cache, available_dates, download_thread,
                   event_queue, threadVars, parseVars, call, dialog, export_file, canvasVars>>

\* the lines the blobs of a session are made of
IndoorLine1000 == << "01/01/2024 10:00", "5", "20.5", "1013.0", "55.0" >>

IndoorLine0900 == << "01/01/2024 09:00", "6", "21", "1012.5", "n/a" >>

IndoorLine1230 == << "01/01/2024 12:30", "7", "32.0", "1013.0", "55.0" >>

BadDatetimeLine == << "2024-01-01 10:00", "5", "20.5", "1013.0", "55.0" >>

OutdoorLine1000 == << "01/01/2024 10:00", "7", " 21 ", "1013.0" >>

ShortLine == << "01/01/2024 10:00", "5", "20.5" >>

\* blobs of indoor files: out of order, far apart and overlapping the
\* first, unusable
IndoorBlobs ==
    { << IndoorLine1000, IndoorLine0900 >>,
      << IndoorLine1230, IndoorLine0900 >>,
      << BadDatetimeLine >> }

\* blobs of outdoor files: one sample, unusable
OutdoorBlobs ==
    { << OutdoorLine1000 >>,
      << ShortLine >> }

\* the caches a download can leave: some of the days, each with a blob
Caches(blobs) == UNION {[ks -> blobs] : ks \in SUBSET SeqToSet(Days)}

\* the window after a download has been handled: the dates of both caches
\* in the dropdowns, plot and export enabled
Downloaded ==
    /\ (DOMAIN data_cache) \cup (DOMAIN outdoor_data_cache) # {}
    /\ available_dates =
          SortDates(SelectSeq(Days, LAMBDA d : d \in (DOMAIN data_cache) \cup
                                                     (DOMAIN outdoor_data_cache)))
    /\ start_date_combo = [items |-> available_dates, current |-> available_dates[1]]
    /\ end_date_combo = [items |-> available_dates,
                         current |-> available_dates[Len(available_dates)]]
    /\ connect_btn = TRUE
    /\ plot_btn = TRUE
    /\ export_btn = TRUE
    /\ progress_bar = 100
    /\ status_bar = "Successfully downloaded"
    /\ download_thread = 1
    /\ event_queue = <<>>
    /\ thread_pc = [w \in Threads |-> IF w = 1 THEN "done" ELSE "none"]
    /\ connection = [w \in Threads |-> None]
    /\ csv_files = [w \in Threads |-> <<>>]
    /\ loop_i = [w \in Threads |-> 0]
    /\ w_data_cache = [w \in Threads |-> EmptyDict]
    /\ w_outdoor_data_cache = [w \in Threads |-> EmptyDict]
    /\ w_available_dates = [w \in Threads |-> <<>>]
    /\ emitted = [w \in Threads |-> <<>>]
    /\ content = <<>>
    /\ parse_pc = "idle"
    /\ series = <<>>
    /\ InitSelection
    /\ InitCanvas

\* a session with any of the caches a download can deliver
InitSelect ==
    /\ data_cache \in Caches(IndoorBlobs)
    /\ outdoor_data_cache \in Caches(OutdoorBlobs)
    /\ Downloaded

NextSelect ==
    \/ SelectDates
    \/ GeneratePlot
    \/ ExportData

SpecSelect == InitSelect /\ [][NextSelect]_vars

(***************************************************************************)
(* MatplotlibCanvas.on_hover.  Timestamps are minutes after 01/01/2024     *)
(* 00:00, matplotlib date numbers are kept in minutes after 01/01/1970,    *)
(* values in tenths.  A label is the record of what annotate() was given.  *)
(***************************************************************************)
\* pd.Timedelta(hours=2), in minutes
time_tolerance == 120

\* matplotlib.dates.num2date, the timezone removed
Num2Date(x) == x - 28401120

\* matplotlib.dates.date2num
Date2Num(t) == t + 28401120

Abs(x) == IF x < 0 THEN 0 - x ELSE x

\* abs(self.current_df['datetime'] - hover_time), row by row
TimeDiffs(df, hover_time) == [k \in 1..Len(df) |-> Abs(df[k].datetime - hover_time)]

\* time_diffs.idxmin(): the index label of the first row, in row order,
\* whose difference is the minimum
IdxMin(df, hover_time) ==
    LET diffs == TimeDiffs(df, hover_time)
        first == CHOOSE k \in 1..Len(df) :
                    /\ \A j \in 1..Len(df) : diffs[k] <= diffs[j]
                    /\ \A j \in 1..(k - 1) : diffs[j] > diffs[k]
    IN df[first].idx

\* s.iloc[i]: the entry at position i, counted from 0
ILoc(s, i) == s[i + 1]

\* the axes of the figure in a view mode: the four panels of the grid
\* (axes[0,0], [0,1], [1,0], [1,1]) or the one of a single view
AxesOf(mode) ==
    IF mode = "all" THEN {"temp", "humidity", "pressure", "feels_like"} ELSE {"single"}

\* lines 130-174: the channel the handler shows for the axes under the cursor
Channel(mode, ax) == IF mode = "all" THEN ax ELSE mode

\* lines 130-174: display_y, absent (pd.NA) for a sample without humidity
DisplayY(channel, closest_point) ==
    CASE channel = "temp"       -> << closest_point.temperature >>
      [] channel = "humidity"   -> closest_point.humidity
      [] channel = "pressure"   -> << closest_point.pressure >>
      [] channel = "feels_like" -> << closest_point.feels_like >>

\* lines 130-174: annotation_text; the humidity text says N/A when
\* pd.isna(display_y)
AnnotationText(channel, closest_point) ==
    [channel |-> channel,
     time |-> FormatDatetime(closest_point.datetime),
     value |-> DisplayY(channel, closest_point),
     not_available |-> channel = "humidity" /\ closest_point.humidity = NA,
     actual |-> IF channel = "feels_like" THEN << closest_point.temperature >> ELSE <<>>]

\* a test against the middle of the window
RelAbove_Half(v, lim) == (v - lim[1]) * 10 > 5 * (lim[2] - lim[1])

\* lines 187-188, 191, 196: (v - lim[0]) / (lim[1] - lim[0]) > 0.7
RelAbove(v, lim) == (v - lim[1]) * 10 > 7 * (lim[2] - lim[1])

\* lines 191-197: xytext
XYText(x_right, y_top) ==
    << IF x_right THEN 0 - 120 ELSE 20, IF y_top THEN 0 - 40 ELSE 40 >>

\* lines 199-208: the annotation ax.annotate() creates
Annotate(ax, text, display_x, display_y, xytext) ==
    [state |-> "visible", ax |-> ax, text |-> text,
     xy |-> << display_x, display_y >>, xytext |-> xytext]

\* an annotation that set_visible(False) has hidden
Hidden == [state |-> "hidden"]

\* hover_annotation.set_visible(False), when there is an annotation
HideAnnotation(a) == IF a = NoAnnotation THEN NoAnnotation ELSE Hidden

\* set_visible(False) that hides nothing
VisibleAfterHide_Noop(visible, a) == visible

\* lines 95-96, 100-101: the visible annotations of the axes once
\* hover_annotation.set_visible(False) has hidden annotation a
VisibleAfterHide(visible, a) == visible \ {a}

\* the cursor times of the motion events
CursorTimes == {540, 570, 600, 720, 750}

\* ax.get_xlim(): visible windows of the time axis, the cursor times inside
XLims == { << Date2Num(500), Date2Num(800) >>, << Date2Num(0), Date2Num(800) >> }

\* ax.get_ylim(): the visible window of the value axis of a panel
YLim(channel) ==
    CASE channel = "temp"       -> << 0, 400 >>
      [] channel = "humidity"   -> << 0, 700 >>
      [] channel = "pressure"   -> << 9800, 10200 >>
      [] channel = "feels_like" -> << 0, 400 >>

\* event.ydata of a cursor inside the axes: high in the window
CursorValues(channel) == { YLim(channel)[1] + 390 }

\* the event, how its handler ended and the axis limits it read, if any
HoverEvent(inaxes, xdata, ydata, exit, xlim, ylim) ==
    [inaxes |-> inaxes, xdata |-> xdata, ydata |-> ydata, exit |-> exit,
     xlim |-> xlim, ylim |-> ylim]

\* a handler that renumbers the rows of the displayed series in place
OnHover_ResetsIndex ==
    /\ current_df # NoDf
    /\ current_df' = [k \in 1..Len(current_df) |-> [current_df[k] EXCEPT !.idx = k - 1]]
    /\ hover_annotation' = HideAnnotation(hover_annotation)
    /\ artists' = VisibleAfterHide(artists, hover_annotation)
    /\ draw_pending' = TRUE
    /\ hover_event' = HoverEvent(None, <<>>, <<>>, "outside", <<>>, <<>>)
    /\ UNCHANGED <<view_mode, current_outdoor_df, screen>>
    /\ UNCHANGED <<uiVars, event_queue, threadVars, parseVars, call, selVars>>

\* on_hover(event): the handler of motion_notify_event.  The event is
\* outside all axes (no coordinates), or inside one with coordinates, or
\* inside one without
OnHover ==
    \E inaxes \in {None} \cup AxesOf(view_mode),
       xdata \in {<<>>} \cup {<< Date2Num(t) >> : t \in CursorTimes},
       ydata \in {<<>>} \cup {<< v >> : v \in UNION {CursorValues(c) : c \in AxesOf("all")}} :
        /\ inaxes = None => xdata = <<>>
        /\ (inaxes # None /\ ydata # <<>>)
                => ydata[1] \in CursorValues(Channel(view_mode, inaxes))
        /\ (xdata = <<>>) <=> (ydata = <<>>)
        /\ IF inaxes = None \/ current_df = NoDf
           THEN \* lines 94-98
                /\ hover_annotation' = HideAnnotation(hover_annotation)
                /\ artists' = VisibleAfterHide(artists, hover_annotation)
                /\ draw_pending' = (draw_pending \/ hover_annotation # NoAnnotation)
                /\ hover_event' = HoverEvent(inaxes, xdata, ydata, "outside", <<>>, <<>>)
           ELSE IF xdata = <<>>
           THEN \* lines 100-109
                /\ hover_annotation' = HideAnnotation(hover_annotation)
                /\ artists' = VisibleAfterHide(artists, hover_annotation)
                /\ draw_pending' = TRUE
                /\ hover_event' = HoverEvent(inaxes, xdata, ydata, "no_coordinates", <<>>, <<>>)
           ELSE LET hover_time == Num2Date(xdata[1])
                    closest_idx == IdxMin(current_df, hover_time)
                    closest_point == ILoc(current_df, closest_idx)
                    channel == Channel(view_mode, inaxes)
                    text == AnnotationText(channel, closest_point)
                    display_x == closest_point.datetime
                    display_y == DisplayY(channel, closest_point)
                IN
                 IF ILoc(TimeDiffs(current_df, hover_time), closest_idx) > time_tolerance
                 THEN \* lines 121-123: return, no draw_idle
                      /\ hover_annotation' = HideAnnotation(hover_annotation)
                      /\ artists' = VisibleAfterHide(artists, hover_annotation)
                      /\ UNCHANGED draw_pending
                      /\ hover_event' = HoverEvent(inaxes, xdata, ydata, "far", <<>>, <<>>)
                 ELSE IF display_y = NA
                 THEN \* line 188 gives pd.NA, the test of line 196 raises
                      \* TypeError; lines 211-212 log it
                      /\ hover_annotation' = HideAnnotation(hover_annotation)
                      /\ artists' = VisibleAfterHide(artists, hover_annotation)
                      /\ UNCHANGED draw_pending
                      /\ hover_event' = HoverEvent(inaxes, xdata, ydata, "raised", <<>>, <<>>)
                 ELSE \E xlim \in XLims :
                      LET ylim == YLim(channel)
                          a == Annotate(inaxes, text, display_x, display_y[1],
                                        XYText(RelAbove(Date2Num(display_x), xlim),
                                               RelAbove(display_y[1], ylim)))
                      IN /\ hover_annotation' = a
                         /\ artists' = VisibleAfterHide(artists, hover_annotation) \cup {a}
                         /\ draw_pending' = TRUE
                         /\ hover_event' = HoverEvent(inaxes, xdata, ydata, "label", xlim, ylim)
    /\ UNCHANGED <<view_mode, current_df, current_outdoor_df, screen>>
    /\ UNCHANGED <<uiVars, event_queue, threadVars, parseVars, call, selVars>>

\* the redraw draw_idle() asked for: the visible annotations are painted
Draw ==
    /\ draw_pending
    /\ screen' = artists
    /\ draw_pending' = FALSE
    /\ UNCHANGED <<view_mode, current_df, current_outdoor_df, hover_annotation,
                   artists, hover_event>>
    /\ UNCHANGED <<uiVars, event_queue, threadVars, parseVars, call, selVars>>

\* set_view_mode(mode): figure.clear() drops every artist, new axes
SetViewMode ==
    /\ \E mode \in {"all", "temp", "humidity", "pressure", "feels_like"} :
        /\ mode # view_mode
        /\ view_mode' = mode
    /\ artists' = {}
    /\ UNCHANGED <<current_df, current_outdoor_df, hover_annotation, screen,
                   draw_pending, hover_event>>
    /\ UNCHANGED <<uiVars, event_queue, threadVars, parseVars, call, selVars>>

\* clear_plots(): nothing is displayed, the axes are cleared and redrawn
ClearPlots ==
    /\ current_df' = NoDf
    /\ current_outdoor_df' = NoDf
    /\ artists' = {}
    /\ screen' = {}
    /\ UNCHANGED <<view_mode, hover_annotation, draw_pending, hover_event>>
    /\ UNCHANGED <<uiVars, event_queue, threadVars, parseVars, call, selVars>>

\* blobs of the day on display: out of order, out of order and far apart,
\* in order, one sample without humidity
HoverBlobs ==
    { << IndoorLine1000, IndoorLine0900 >>,
      << IndoorLine1230, IndoorLine0900 >>,
      << IndoorLine0900, IndoorLine1000 >>,
      << IndoorLine0900 >> }

\* the window after a download of one indoor and one outdoor file
InitHover ==
    /\ data_cache \in [{Days[1]} -> HoverBlobs]
    /\ outdoor_data_cache = [d \in {Days[1]} |-> << OutdoorLine1000 >>]
    /\ Downloaded

NextHover ==
    \/ GeneratePlot
    \/ OnHover
    \/ Draw
    \/ SetViewMode
    \/ ClearPlots

SpecHover == InitHover /\ [][NextHover]_vars

(***************************************************************************)
(* MatplotlibCanvas.apply_smoothing and calculate_heat_index, called on    *)
(* their own.  Values are in tenths and chosen so that the means and       *)
(* medians of up to three of them are whole.                               *)
(***************************************************************************)
RECURSIVE SumSeq(_)
SumSeq(s) == IF s = <<>> THEN 0 ELSE Head(s) + SumSeq(Tail(s))

RECURSIVE SortNumbers(_)
SortNumbers(s) ==
    IF s = <<>> THEN <<>>
    ELSE LET rest == SortNumbers(Tail(s))
             x == Head(s)
         IN SelectSeq(rest, LAMBDA y : y < x) \o <<x>> \o SelectSeq(rest, LAMBDA y : y >= x)

\* Rolling.median() of the values of one window
Median(vals) ==
    LET s == SortNumbers(vals)
        n == Len(s)
    IN IF n % 2 = 1 THEN s[(n + 1) \div 2] ELSE (s[n \div 2] + s[n \div 2 + 1]) \div 2

\* Rolling.mean() of the values of one window
Mean(vals) == SumSeq(vals) \div Len(vals)

\* col.rolling(window, min_periods=1, center=True): the window of row k
\* ends (window - 1) // 2 rows after it and is cut at the ends of the column
Rolling(col, window, method) ==
    LET n == Len(col)
        offset == (window - 1) \div 2
        first(k) == IF k + offset - window + 1 < 1 THEN 1 ELSE k + offset - window + 1
        last(k) == IF k + offset > n THEN n ELSE k + offset
        vals(k) == SubSeq(col, first(k), last(k))
    IN [k \in 1..n |-> IF method = "median" THEN Median(vals(k)) ELSE Mean(vals(k))]

\* apply_smoothing(df, window, method).  A humidity column that holds pd.NA
\* has dtype object: Rolling cannot convert it to float64 and raises
\* DataError ("No numeric types to aggregate"), which nothing in the method
\* catches
ApplySmoothing(df, window, method) ==
    IF window <= 1 \/ df = <<>>
    THEN [raised |-> FALSE, df |-> df]
    ELSE IF \E k \in 1..Len(df) : df[k].humidity = NA
    THEN [raised |-> TRUE, df |-> NoDf]
    ELSE LET temperature == Rolling([k \in 1..Len(df) |-> df[k].temperature], window, method)
             humidity == Rolling([k \in 1..Len(df) |-> df[k].humidity[1]], window, method)
             pressure == Rolling([k \in 1..Len(df) |-> df[k].pressure], window, method)
         IN [raised |-> FALSE,
             df |-> [k \in 1..Len(df) |->
                        [df[k] EXCEPT !.temperature = temperature[k],
                                      !.humidity = << humidity[k] >>,
                                      !.pressure = pressure[k]]]]

\* rows of a series to smooth
SmoothingRow(t, temperature, humidity) ==
    [datetime |-> t, sample_size |-> 5, temperature |-> temperature,
     pressure |-> 10128, humidity |-> humidity]

\* the series handed to apply_smoothing: up to three samples ten minutes
\* apart
SmoothingSeries ==
    UNION {
        {[k \in 1..n |-> SmoothingRow(530 + 10 * k, tv[k], hv[k])] :
            tv \in [1..n -> {180, 300}], hv \in [1..n -> {NA, << 480 >>, << 600 >>}]}
        : n \in 0..3}

\* the window sizes of the calls; the dropdown gives 1 for "None"
Windows == {0, 1, 2, 3}

\* method.lower() of the method dropdown
Methods == {"median", "mean"}

\* a call of apply_smoothing; the method keeps no state, one call is
\* followed
ApplySmoothingCall ==
    /\ call = NoCall
    /\ \E df \in SmoothingSeries, window \in Windows, method \in Methods :
        LET r == ApplySmoothing(df, window, method)
        IN call' = [fn |-> "apply_smoothing", df |-> df, window |-> window,
                    method |-> method, raised |-> r.raised, result |-> r.df]
    /\ UNCHANGED <<uiVars, event_queue, threadVars, parseVars, selVars, canvasVars>>

\* the temperatures of the calls of calculate_heat_index: below, around and
\* above 80 F (26.67 C), up to and above 112 F
Temperatures == {150, 200, 266, 267, 300, 320, 350, 400, 445}

\* the humidities of the calls: absent, below and above 13 %, below and
\* above 85 %
Humidities == {NA, << 50 >>, << 125 >>, << 135 >>, << 550 >>, << 850 >>, << 855 >>, << 900 >>}

\* a call of calculate_heat_index; the except clause of lines 231-233 lets
\* no exception out
CalculateHeatIndexCall ==
    /\ call = NoCall
    /\ \E temp_c \in Temperatures, humidity \in Humidities :
        call' = [fn |-> "calculate_heat_index", temp_c |-> temp_c, humidity |-> humidity,
                 raised |-> FALSE, result |-> CalculateHeatIndex(temp_c, humidity)]
    /\ UNCHANGED <<uiVars, event_queue, threadVars, parseVars, selVars, canvasVars>>

NextHelpers ==
    \/ ApplySmoothingCall
    \/ CalculateHeatIndexCall

SpecHelpers == Init /\ [][NextHelpers]_vars

(***************************************************************************)
(* Properties of the download                                              *)
(***************************************************************************)
\* run() of thread w has begun and has not ended
Running(w) == thread_pc[w] \in {"start", "list", "loop", "finish", "finally"}

Last(s) == s[Len(s)]

\* the progress values thread w has emitted, in order
ProgressValues(w) ==
    LET p == SelectSeq(emitted[w], LAMBDA e : e.sig = "progress_updated")
    IN [k \in 1..Len(p) |-> p[k].val]

\* thread w has emitted its terminal signal and the UI thread has handled it
TerminalHandled(w) ==
    /\ emitted[w] # <<>>
    /\ IsTerminal(Last(emitted[w]))
    /\ \A k \in 1..Len(event_queue) : event_queue[k].src # w

\* the fetch of thread w is in flight: started, outcome not yet delivered
InFlight(w) == thread_pc[w] \notin {"none", "collected"} /\ ~TerminalHandled(w)

\* C1: while the run() of a worker has not ended, the connect button is
\* disabled and no other worker is running.
C1_NoConcurrentFetch ==
    \A w \in Threads :
        Running(w) => /\ ~connect_btn
                      /\ \A v \in Threads \ {w} : ~Running(v)

\* C2: a worker emits at most one terminal signal and nothing after it, and
\* a worker that has left the try block has emitted exactly one.
C2_OneTerminalEvent ==
    \A w \in Threads :
        /\ \A k \in 1..Len(emitted[w]) : IsTerminal(emitted[w][k]) => k = Len(emitted[w])
        /\ thread_pc[w] \in {"finally", "done", "raised"} =>
                emitted[w] # <<>> /\ IsTerminal(Last(emitted[w]))

C2_Witness ==
    /\ \E w \in Threads : thread_pc[w] = "done" /\ Last(emitted[w]).sig = "download_complete"
    /\ \E w \in Threads : thread_pc[w] = "raised" /\ Last(emitted[w]).sig = "download_error"

\* C3: the session's caches and date list change only in the step that
\* delivers download_complete to on_download_complete, a step that changes
\* no worker; and they do not change in any step during which a fetch
\* stays in flight.
C3_CacheOnlyInSuccessHandler ==
    [][ /\ <<data_cache, outdoor_data_cache, available_dates>>' #
              <<data_cache, outdoor_data_cache, available_dates>>
            => /\ event_queue # <<>>
               /\ Head(event_queue).ev.sig = "download_complete"
               /\ event_queue' = Tail(event_queue)
               /\ UNCHANGED threadVars
        /\ (\E w \in Threads : InFlight(w) /\ InFlight(w)')
            => UNCHANGED <<data_cache, outdoor_data_cache, available_dates>>
      ]_vars

C3_Witness ==
    \E w \in Threads :
        /\ thread_pc[w] = "finish"
        /\ data_cache # EmptyDict
        /\ w_data_cache[w] # EmptyDict
        /\ w_data_cache[w] # data_cache

\* C4 as stated: the progress values of a run never decrease, lie in
\* 0..100, and a 100 is directly followed by the success signal.
C4_ProgressThenSuccess ==
    \A w \in Threads :
        LET p == ProgressValues(w)
            e == emitted[w]
        IN /\ \A k \in 1..Len(p) : p[k] \in 0..100
           /\ \A j, k \in 1..Len(p) : j < k => p[j] <= p[k]
           /\ \A k \in 1..Len(e) :
                (e[k].sig = "progress_updated" /\ e[k].val = 100)
                    => k < Len(e) /\ e[k + 1].sig = "download_complete"

\* C4 amended: the progress values of a run never decrease and lie in
\* 0..100; a 100 is the last progress value, is followed by exactly the
\* final status message and then the success signal, and is never emitted
\* by a run that ends in download_error.
C4_ProgressMonotone ==
    \A w \in Threads :
        LET p == ProgressValues(w)
            e == emitted[w]
        IN /\ \A k \in 1..Len(p) : p[k] \in 0..100
           /\ \A j, k \in 1..Len(p) : j < k => p[j] <= p[k]
           /\ \A k \in 1..Len(e) :
                (e[k].sig = "progress_updated" /\ e[k].val = 100)
                    => /\ Len(e) = k + 2
                       /\ e[k + 1] = Status("Successfully downloaded")
                       /\ e[k + 2].sig = "download_complete"

C4_Witness ==
    \E w \in Threads :
        /\ Len(ProgressValues(w)) >= 3
        /\ Last(ProgressValues(w)) = 100
        /\ \E k \in 1..Len(ProgressValues(w)) : ProgressValues(w)[k] \notin {0, 100}

C6_CacheIsPayload ==
    \A w \in Threads :
        (w = download_thread /\ TerminalHandled(w) /\ Last(emitted[w]).sig = "download_complete")
            => /\ data_cache = Last(emitted[w]).data_cache
               /\ outdoor_data_cache = Last(emitted[w]).outdoor_data_cache

\* a second download has been handled and a key of the first is gone
C6_Witness ==
    \E v, w \in Threads :
        /\ v < w
        /\ w = download_thread
        /\ TerminalHandled(v) /\ Last(emitted[v]).sig = "download_complete"
        /\ TerminalHandled(w) /\ Last(emitted[w]).sig = "download_complete"
        /\ \E k \in DOMAIN Last(emitted[v]).data_cache : k \notin DOMAIN data_cache


(***************************************************************************)
(* Properties of parse_csv_content                                         *)
(***************************************************************************)
\* a line the parser looks at: neither blank nor a header
IsDataLine(line) == ~IsBlank(line) /\ ~IsHeader(line)

\* a data line with fewer than 4 fields, or whose sample_size is no
\* integer, or whose temperature or pressure is no float
Malformed(line) ==
    /\ IsDataLine(line)
    /\ \/ Len(line) < 4
       \/ ~IntOk(Strip(line[2]))
       \/ ~FloatOk(Strip(line[3]))
       \/ ~FloatOk(Strip(line[4]))

\* a data line whose first four fields all parse
FirstFourParse(line) ==
    /\ IsDataLine(line)
    /\ Len(line) >= 4
    /\ DatetimeOk(Strip(line[1]))
    /\ IntOk(Strip(line[2]))
    /\ FloatOk(Strip(line[3]))
    /\ FloatOk(Strip(line[4]))

\* a data line with four or more fields of which only the datetime fails
BadDatetimeOnly(line) ==
    /\ IsDataLine(line)
    /\ Len(line) >= 4
    /\ ~DatetimeOk(Strip(line[1]))
    /\ IntOk(Strip(line[2]))
    /\ FloatOk(Strip(line[3]))
    /\ FloatOk(Strip(line[4]))

\* the humidity the specification gives a line: the number of a numeric
\* fifth field, absent otherwise
SpecHumidity(line) ==
    IF Len(line) >= 5 /\ FloatOk(Strip(line[5])) THEN << FloatVal(Strip(line[5])) >> ELSE NA

\* row has the four mandatory values of line
RowOfLine(row, line) ==
    /\ row.datetime = DatetimeVal(Strip(line[1]))
    /\ row.sample_size = IntVal(Strip(line[2]))
    /\ row.temperature = FloatVal(Strip(line[3]))
    /\ row.pressure = FloatVal(Strip(line[4]))

\* number of lines of text that satisfy P
CountLines(text, P(_)) == Len(SelectSeq(text, P))

\* C7: when a blob holds a line whose datetime does not match the format,
\* every line of the blob whose first four fields parse still has its
\* sample in the returned Series.
C7_BadDatetimeDiscardedAlone ==
    (parse_pc = "done" /\ \E k \in 1..Len(content) : BadDatetimeOnly(content[k]))
        => /\ Len(series) = CountLines(content, FirstFourParse)
           /\ \A k \in 1..Len(content) :
                FirstFourParse(content[k])
                    => \E j \in 1..Len(series) : RowOfLine(series[j], content[k])

\* C8: the malformed lines of a blob have no part in the returned Series:
\* the Series is the one the blob gives without them (each costs exactly
\* its own sample), and every row of the Series carries the four values of
\* one line that is not malformed (no partial sample).
C8_MalformedLineExcluded ==
    parse_pc = "done"
        => /\ series = ParseCsvContent(SelectSeq(content, LAMBDA l : ~Malformed(l)))
           /\ Len(series) <= CountLines(content, IsDataLine) - CountLines(content, Malformed)
           /\ \A j \in 1..Len(series) :
                \E k \in 1..Len(content) : FirstFourParse(content[k]) /\ RowOfLine(series[j], content[k])

C8_Witness ==
    /\ parse_pc = "done"
    /\ CountLines(content, Malformed) = 2
    /\ \E k \in 1..Len(content) : Len(content[k]) < 4 /\ Malformed(content[k])
    /\ Len(series) = 1
    /\ Len(series) = CountLines(content, IsDataLine) - CountLines(content, Malformed)

\* C9: every line whose first four fields parse has its sample in the
\* returned Series, with the number of a numeric fifth field as humidity
\* and absent humidity in every other case.
C9_HumidityNeverDiscards ==
    parse_pc = "done"
        => \A k \in 1..Len(content) :
              FirstFourParse(content[k])
                  => \E j \in 1..Len(series) :
                        /\ RowOfLine(series[j], content[k])
                        /\ series[j].humidity = SpecHumidity(content[k])

\* C10: the returned Series is ascending by timestamp, and rows of equal
\* timestamp are in the order of their lines.
C10_SortedByTimestamp ==
    parse_pc = "done"
        => /\ \A i, j \in 1..Len(series) : i < j => series[i].datetime <= series[j].datetime
           /\ \A t \in {series[j].datetime : j \in 1..Len(series)} :
                SelectSeq(series, LAMBDA r : r.datetime = t)
                    = SelectSeq(ToDataFrame(ParsedData(DataLines(content))),
                                LAMBDA r : r.datetime = t)

\* C11: parse_csv_content never raises: every call returns, and a blob that
\* is empty, or holds only blank and header lines, or only lines that are
\* discarded, gives an empty Series.
C11_ParseNeverRaises ==
    /\ parse_pc # "raised"
    /\ (parse_pc = "done" /\ \A k \in 1..Len(content) : ~IsDataLine(content[k]) \/ Malformed(content[k]))
            => series = <<>>

\* a call whose try block raised, and returned an empty Series
C11_Witness ==
    /\ parse_pc = "done"
    /\ TryParse(content).raised
    /\ \E k \in 1..Len(content) : FirstFourParse(content[k])
    /\ series = <<>>

(***************************************************************************)
(* Properties of the selection                                             *)
(***************************************************************************)
\* a selection handler has run on the selected range, past the file dialog
Selected == op.handler # None /\ op.outcome \notin {"cancelled", "selection_error"}

\* the range the handler read is valid: start not after end
ValidRange == Strptime(op.start_date) <= Strptime(op.end_date)

\* the handler went on to combine the Series it selected
Combined == Selected /\ op.combined_indoor_df # NoDf

\* the days from start_date to end_date that are keys of cache
InRangeDays(cache, start_date, end_date) ==
    SelectSeq(Days, LAMBDA d : /\ Strptime(start_date) <= Strptime(d)
                               /\ Strptime(d) <= Strptime(end_date)
                               /\ d \in DOMAIN cache)

\* the concatenation of the parsed Series of the listed days of cache
RECURSIVE InRangeSamplesOf(_, _)
InRangeSamplesOf(cache, days) ==
    IF days = <<>> THEN <<>>
    ELSE ParseCsvContent(cache[Head(days)]) \o InRangeSamplesOf(cache, Tail(days))

\* the samples of the in-range days of cache
InRangeSamples(cache, start_date, end_date) ==
    InRangeSamplesOf(cache, InRangeDays(cache, start_date, end_date))

\* the sample a row of a DataFrame carries
SampleOf(r) ==
    [datetime |-> r.datetime, sample_size |-> r.sample_size,
     temperature |-> r.temperature, pressure |-> r.pressure, humidity |-> r.humidity]

Samples(df) == [k \in 1..Len(df) |-> SampleOf(df[k])]

\* a and b hold the same samples the same number of times
IsPermutation(a, b) ==
    /\ Len(a) = Len(b)
    /\ \A x \in SeqToSet(a) \cup SeqToSet(b) :
          Len(SelectSeq(a, LAMBDA y : y = x)) = Len(SelectSeq(b, LAMBDA y : y = x))

Ascending(df) == \A i, j \in 1..Len(df) : i < j => df[i].datetime <= df[j].datetime

\* C12: the combined indoor Series of a selection, and the combined outdoor
\* Series when there is one, is ascending by timestamp and holds exactly the
\* samples of the parsed blobs of the in-range days of its cache, each as
\* often as the blobs hold it.
C12_CombinedSortedPermutation ==
    Combined
        => /\ Ascending(op.combined_indoor_df)
           /\ IsPermutation(Samples(op.combined_indoor_df),
                            InRangeSamples(data_cache, op.start_date, op.end_date))
           /\ op.combined_outdoor_df # NoDf
                => /\ Ascending(op.combined_outdoor_df)
                   /\ IsPermutation(Samples(op.combined_outdoor_df),
                                    InRangeSamples(outdoor_data_cache, op.start_date,
                                                   op.end_date))

\* C13: every in-range day of the outdoor cache has its samples in the
\* outdoor Series of the selection, whether or not the indoor cache holds
\* the day, so that generate_plot and export_data select the same samples.
C13_SelectionPerSource ==
    Combined
        => /\ IsPermutation(Samples(op.combined_indoor_df),
                            Samples(Concat(ExportIndoorData(Strptime(op.start_date),
                                                            Strptime(op.end_date)))))
           /\ IsPermutation(Samples(op.combined_outdoor_df),
                            Samples(Concat(ExportOutdoorData(Strptime(op.start_date),
                                                             Strptime(op.end_date)))))
           /\ \A d \in SeqToSet(InRangeDays(outdoor_data_cache, op.start_date, op.end_date)) :
                \A k \in 1..Len(ParseCsvContent(outdoor_data_cache[d])) :
                    \E j \in 1..Len(op.combined_outdoor_df) :
                        SampleOf(op.combined_outdoor_df[j])
                            = ParseCsvContent(outdoor_data_cache[d])[k]

\* C14: a selection handler that runs on a range whose start is after its
\* end reports the date error, not the no-data condition, and reads no
\* cache entry, displays nothing and writes nothing.
C14_DateErrorFirst ==
    (Selected /\ ~ValidRange)
        => /\ op.outcome = "date_error"
           /\ dialog = "Date Error"
           /\ op.reads = {}
           /\ op.combined_indoor_df = NoDf

Looked == hover_event.exit \in {"label", "far", "raised"}

\* the cursor time of the last hover event
CursorTime == Num2Date(hover_event.xdata[1])

\* the distance in time from the cursor to sample k of the displayed series
Distance(k) == Abs(current_df[k].datetime - CursorTime)

\* the first sample of the displayed series, in series order, among those
\* nearest to the cursor
Nearest ==
    CHOOSE k \in 1..Len(current_df) :
        /\ \A j \in 1..Len(current_df) : Distance(k) <= Distance(j)
        /\ \A j \in 1..(k - 1) : Distance(j) > Distance(k)

\* the label on display is one for sample k of the displayed series
Labels(k) ==
    /\ hover_annotation.state = "visible"
    /\ hover_annotation.xy[1] = current_df[k].datetime
    /\ hover_annotation.text.time = FormatDatetime(current_df[k].datetime)

\* the channel of the panel of the last hover event
HoverChannel == Channel(view_mode, hover_event.inaxes)

\* C16: the sample a hover labels is the first, in series order, of the
\* samples of the displayed series nearest in time to the cursor.
C16_NearestSampleLabelled ==
    hover_event.exit = "label" => Labels(Nearest)

\* C17: a hover over a displayed series produces a label exactly when the
\* least distance from the cursor to a sample is at most 2 hours, and a
\* cursor on the timestamp of a sample labels a sample of that timestamp.
C17_LabelIffWithinTolerance ==
    Looked
        => /\ hover_event.exit = "label" <=> Distance(Nearest) <= 120
           /\ Distance(Nearest) = 0
                => /\ hover_annotation.state = "visible"
                   /\ hover_annotation.xy[1] = CursorTime

\* C18: a hover on the humidity panel, of the grid or of the single
\* humidity view, within 2 hours of a nearest sample that has no humidity
\* produces a label that carries the not-available marker.
C18_HumidityNotAvailableLabel ==
    (/\ Looked
     /\ view_mode \in {"all", "humidity"}
     /\ HoverChannel = "humidity"
     /\ Distance(Nearest) <= 120
     /\ current_df[Nearest].humidity = NA)
        => /\ hover_event.exit = "label"
           /\ hover_annotation.state = "visible"
           /\ hover_annotation.text.not_available

C20_StaleLabelCleared ==
    hover_event.exit \in {"outside", "no_coordinates", "far"}
        => /\ hover_annotation.state # "visible"
           /\ artists = {}
           /\ screen # {} => draw_pending

\* C21: on_hover reads the data only.  Every step that handles a hover
\* event (it changes the record of the last event or the label), whether it
\* yields a label, yields none or fails inside, leaves the displayed indoor
\* series (samples, order, feels-like values), the outdoor series, the two
\* caches and the available dates unchanged.
C21_HoverReadOnly ==
    [][ (hover_event' # hover_event \/ hover_annotation' # hover_annotation)
            => UNCHANGED <<current_df, current_outdoor_df, data_cache,
                           outdoor_data_cache, available_dates>> ]_vars

\* hovers have yielded a label, painted, and then failed inside, over an
\* indoor and an outdoor series
C21_Witness ==
    /\ hover_event.exit = "raised"
    /\ screen # {}
    /\ current_df # NoDf
    /\ current_outdoor_df # NoDf

(***************************************************************************)
(* Properties of the worker's batch                                        *)
(***************************************************************************)
\* thread w is at file f of its list and handles it in this step
HandlesFile(w) == thread_pc[w] = "loop" /\ loop_i'[w] # loop_i[w]

\* the file thread w is at
CurrentFile(w) == csv_files[w][loop_i[w] + 1]

\* thread w leaves its download loop's epilogue in this step
EndsBatch(w) == thread_pc[w] = "finish" /\ thread_pc'[w] = "finally"

\* C22: a failure of one file is not fatal to the batch.  Whatever
\* download_file returns for a file, the worker goes on to the next file of
\* the list, the file changes the caches only by its own entry, and a
\* worker that has gone through its list ends in success: its last signal
\* is download_complete with the caches it has built.
C22_FileFailureNotFatal ==
    [][ \A w \in Threads :
          /\ HandlesFile(w)
                => /\ loop_i'[w] = loop_i[w] + 1
                   /\ thread_pc'[w] = IF loop_i'[w] < Len(csv_files[w]) THEN "loop" ELSE "finish"
                   /\ \/ /\ w_data_cache'[w] = w_data_cache[w]
                         /\ w_outdoor_data_cache'[w] = w_outdoor_data_cache[w]
                      \/ \E text \in DownloadResults \ {None} :
                            \/ /\ w_data_cache'[w] =
                                    DictSet(w_data_cache[w], DateStr(CurrentFile(w)), text)
                               /\ w_outdoor_data_cache'[w] = w_outdoor_data_cache[w]
                            \/ /\ w_outdoor_data_cache'[w] =
                                    DictSet(w_outdoor_data_cache[w], DateStr(CurrentFile(w)), text)
                               /\ w_data_cache'[w] = w_data_cache[w]
          /\ EndsBatch(w)
                => LET e == emitted'[w][Len(emitted'[w])] IN
                   /\ e.sig = "download_complete"
                   /\ e.data_cache = w_data_cache[w]
                   /\ e.outdoor_data_cache = w_outdoor_data_cache[w]
      ]_vars

\* the name is DD_MM_YYYY.csv, the whole of it
IsIndoorName(f) == f \in {"01_02_2024.csv", "02_01_2024.csv", "31_02_2024.csv"}

\* the name is DD_MM_YYYY_outside.csv, the whole of it
IsOutdoorName(f) == f \in {"02_01_2024_outside.csv"}

\* the date DD/MM/YYYY a name begins with
DateOfName(f) ==
    CASE f \in {"01_02_2024.csv"} -> "01/02/2024"
      [] f \in {"02_01_2024.csv", "02_01_2024.csv.bak.csv", "02_01_2024_outside.csv"}
            -> "02/01/2024"
      [] f \in {"31_02_2024.csv"} -> "31/02/2024"

\* C23: a listed file changes the indoor cache only if its name is
\* DD_MM_YYYY.csv exactly, the outdoor cache only if it is
\* DD_MM_YYYY_outside.csv exactly, and then by the one key DD/MM/YYYY of
\* that name; a file of any other name changes neither cache nor the
\* list of available dates, and the worker goes on.
C23_ExactNamesOnly ==
    [][ \A w \in Threads :
          HandlesFile(w)
            => LET f == CurrentFile(w) IN
               /\ w_data_cache'[w] # w_data_cache[w]
                    => /\ IsIndoorName(f)
                       /\ \E text \in DownloadResults \ {None} :
                            w_data_cache'[w] = DictSet(w_data_cache[w], DateOfName(f), text)
               /\ w_outdoor_data_cache'[w] # w_outdoor_data_cache[w]
                    => /\ IsOutdoorName(f)
                       /\ \E text \in DownloadResults \ {None} :
                            w_outdoor_data_cache'[w] =
                                DictSet(w_outdoor_data_cache[w], DateOfName(f), text)
               /\ ~(IsIndoorName(f) \/ IsOutdoorName(f))
                    => /\ w_data_cache'[w] = w_data_cache[w]
                       /\ w_outdoor_data_cache'[w] = w_outdoor_data_cache[w]
                       /\ w_available_dates'[w] = w_available_dates[w]
                       /\ thread_pc'[w] \in {"loop", "finish"}
      ]_vars

\* a date list for two caches: ascending by calendar day, hence without
\* duplicates, and holding exactly the keys of the caches
DatesOfCaches(dates, dc, odc) ==
    /\ \A k \in 1..Len(dates) : StrptimeOk(dates[k])
    /\ \A j, k \in 1..Len(dates) : j < k => Strptime(dates[j]) < Strptime(dates[k])
    /\ SeqToSet(dates) = (DOMAIN dc) \cup (DOMAIN odc)

\* C24: the list of available dates every download_complete signal carries,
\* and the list the session holds, is ascending by calendar date (not by
\* string order), has no duplicates and holds exactly the keys of the two
\* caches it goes with.
C24_AvailableDatesSorted ==
    /\ \A w \in Threads : \A k \in 1..Len(emitted[w]) :
            emitted[w][k].sig = "download_complete"
                => DatesOfCaches(emitted[w][k].available_dates, emitted[w][k].data_cache,
                                 emitted[w][k].outdoor_data_cache)
    /\ DatesOfCaches(available_dates, data_cache, outdoor_data_cache)

\* the session holds two dates whose calendar order is not their string
\* order, one of them a key of the outdoor cache as well
C24_Witness ==
    /\ available_dates = << "02/01/2024", "01/02/2024" >>
    /\ DOMAIN data_cache = {"01/02/2024"}
    /\ DOMAIN outdoor_data_cache = {"02/01/2024"}

(***************************************************************************)
(* Properties of the export                                                *)
(***************************************************************************)
\* export_data has written the file of the selected range
Exported == Selected /\ op.handler = "export_data" /\ op.outcome = "ok"

\* C25: the export of a valid range holds one row for every indoor sample
\* of the range, in indoor order; a row carries outdoor values only of an
\* outdoor sample of its Date/Time, and outdoor samples add no rows, also
\* when several of them share one Date/Time.
C25_OneRowPerIndoorSample ==
    (Exported /\ ValidRange)
        => LET indoor == op.combined_indoor_df
               rows == export_file.rows
           IN /\ Len(rows) = Len(indoor)
              /\ \A k \in 1..Len(rows) :
                    k <= Len(indoor)
                        => /\ rows[k].indoor.date_time = FormatDatetime(indoor[k].datetime)
                           /\ rows[k].indoor.temperature = indoor[k].temperature
                           /\ rows[k].indoor.sample_size = indoor[k].sample_size
              /\ \A k \in 1..Len(rows) :
                    rows[k].outdoor # NA
                        => \E j \in 1..Len(op.combined_outdoor_df) :
                              /\ FormatDatetime(op.combined_outdoor_df[j].datetime)
                                    = rows[k].indoor.date_time
                              /\ op.combined_outdoor_df[j].temperature
                                    = rows[k].outdoor[1].temperature

(***************************************************************************)
(* Properties of apply_smoothing and calculate_heat_index                  *)
(***************************************************************************)
\* apply_smoothing has been called
Smoothed == call.fn = "apply_smoothing"

\* every sample of the window of row k of df has no humidity
WindowAllAbsent(df, window, k) ==
    LET offset == (window - 1) \div 2 IN
    \A j \in 1..Len(df) :
        (k + offset - window + 1 <= j /\ j <= k + offset) => df[j].humidity = NA

\* C26: apply_smoothing never aborts, whatever the series, the method and
\* the window, also when some or all humidity values are absent; it returns
\* as many samples, with the same timestamps in the same order and the same
\* sample sizes; for a window of 1 or less it returns its input; and a
\* window that holds only absent humidity yields absent humidity.
C26_SmoothingKeepsShape ==
    Smoothed
        => /\ ~call.raised
           /\ Len(call.result) = Len(call.df)
           /\ \A k \in 1..Len(call.df) :
                k <= Len(call.result)
                    => /\ call.result[k].datetime = call.df[k].datetime
                       /\ call.result[k].sample_size = call.df[k].sample_size
                       /\ (call.window > 1 /\ WindowAllAbsent(call.df, call.window, k))
                            => call.result[k].humidity = NA
           /\ call.window <= 1 => call.result = call.df

\* calculate_heat_index has been called
HeatIndexed == call.fn = "calculate_heat_index"

\* the temperature of the call is below 80 F: tempC * 9 / 5 + 32 < 80, in
\* tenths of a degree Celsius
Below80F == call.temp_c * 9 + 1600 < 4000

\* C27: calculate_heat_index never raises; it returns the temperature it
\* was given when the humidity is absent and when the temperature is below
\* 80 F, and the value of the regression with its humidity adjustments
\* otherwise, that is only at 80 F or above.
C27_HeatIndexGuards ==
    HeatIndexed
        => /\ ~call.raised
           /\ call.humidity = NA => call.result = call.temp_c
           /\ Below80F => call.result = call.temp_c
           /\ (call.humidity # NA /\ ~Below80F)
                => call.result = Rothfusz(call.temp_c, call.humidity[1])
           /\ call.result # call.temp_c => (call.humidity # NA /\ ~Below80F)

\* a call just below 80 F with humidity present, where the regression
\* would give another value
C27_Witness ==
    /\ HeatIndexed
    /\ call.temp_c = 266
    /\ call.humidity = << 850 >>
    /\ call.result = 266
    /\ Rothfusz(266, 850) # 266

(***************************************************************************)
(* Properties of the session after downloads                               *)
(***************************************************************************)
\* C28: the dates the start and the end dropdown offer are the session's
\* list of available dates, and plot and export are enabled only if that
\* list is not empty.
C28_DropdownsAreAvailableDates ==
    /\ start_date_combo.items = available_dates
    /\ end_date_combo.items = available_dates
    /\ plot_btn => available_dates # <<>>
    /\ export_btn => available_dates # <<>>

\* C29: when run() of a worker has ended, on whatever path (connect
\* failure, empty listing, success, exception), its manager holds no
\* connection.
C29_ConnectionReleased ==
    \A w \in Threads : thread_pc[w] \in {"done", "raised"} => connection[w] = None

(***************************************************************************)
(* Properties of the hover label                                           *)
(***************************************************************************)
\* C30: at most one hover label is visible on the canvas, and at most one
\* is painted: the only visible label is the one created last, the one
\* before it was hidden before it was created.
C30_AtMostOneLabel ==
    /\ Cardinality(artists) <= 1
    /\ Cardinality(screen) <= 1
    /\ \A a \in artists : a = hover_annotation

\* a label is painted and another one, created after it, is the visible one
C30_Witness ==
    /\ Cardinality(artists) = 1
    /\ Cardinality(screen) = 1
    /\ artists # screen

====
